---- MODULE Spec2Model ----
(***************************************************************************)
(* rp2040-hal, pwm/dyn_slice.rs: the value-level (type-erased) PWM slice   *)
(* and channel handles.                                                    *)
(*                                                                         *)
(* The state machines modelled:                                            *)
(*   SpecChannel   - one physical slice's register file and the two        *)
(*                   DynChannel handles (A, B) bound to it, together with  *)
(*                   the DynSlice::default_config of the same slice.       *)
(*   SpecOwned     - the same handles with the PwmPin calls alone, the     *)
(*                   handles being the only writers of the duty registers. *)
(*   SpecSlice     - the DynSlice configuration calls on the slice's       *)
(*                   register file.                                        *)
(*   SpecInterrupt - the peripheral-wide interrupt words INTE/INTR/INTF    *)
(*                   and the DynSlice interrupt operations of every slice. *)
(* Every call is one step.  `last` / `irq_last` log the call that produced *)
(* the current state together with the state it was made in; `prev` logs   *)
(* the call before that and `irq_repeat` tells that the call before the    *)
(* last one was the same call on the same slice; `inte_want` is, per       *)
(* slice, what its last enable_interrupt/disable_interrupt call asked for; *)
(* `panicked` tells that a call has panicked, which ends the program;      *)
(* `last_set` is, per channel, the argument of the most recent set_duty on *)
(* the handle, 0 while the handle has had none.                            *)
(***************************************************************************)
EXTENDS Integers, Sequences, FiniteSets, TLC

VARIABLES regs, chan, last, prev, last_set, panicked,
          inte, intr, intf, inte_want, irq_last, irq_repeat

vars == <<regs, chan, last, prev, last_set, panicked,
          inte, intr, intf, inte_want, irq_last, irq_repeat>>
chanVars == <<regs, chan, last, prev, last_set, panicked>>
irqVars == <<inte, intr, intf, inte_want, irq_last, irq_repeat>>

(***************************************************************************)
(* Bounds                                                                  *)
(***************************************************************************)
\* duty values 0..MaxDuty are enumerated besides the scenario values below
MaxDuty == 1
\* number of physical slices with a live DynSlice handle (ids 0..NumSlices-1)
NumSlices == 3
\* largest slice id bitmask() is evaluated for
MaxId == 7
\* values 0..MaxReg are enumerated for the slice's configuration registers
MaxReg == 1

(***************************************************************************)
(* Program constants                                                       *)
(***************************************************************************)
\* default_config: write_top(0xffff)
TOP_DEFAULT == 65535
\* default_config: write_div_int(1)
DIV_INT_DEFAULT == 1

\* type Duty = u16: the enumerated 16-bit duty values
Duty == (0 .. MaxDuty) \cup {20000}

SliceIds == 0 .. (NumSlices - 1)

\* pub enum DynChannelId { A, B }
DynChannelId == {"A", "B"}

\* pub struct DynSliceId { pub num: u8 }
DynSliceId(n) == [num |-> n]

(***************************************************************************)
(* Register Interface (reg::RegisterInterface): typed accessors of one     *)
(* slice's register file.                                                  *)
(***************************************************************************)
read_cc_a(r) == r.cc_a
read_cc_b(r) == r.cc_b
read_top(r) == r.top
read_ctr(r) == r.ctr
write_cc_a(r, v) == [r EXCEPT !.cc_a = v]
write_cc_b(r, v) == [r EXCEPT !.cc_b = v]
write_inv_a(r, v) == [r EXCEPT !.inv_a = v]
write_inv_b(r, v) == [r EXCEPT !.inv_b = v]
write_ph_correct(r, v) == [r EXCEPT !.ph_correct = v]
write_div_int(r, v) == [r EXCEPT !.div_int = v]
write_div_frac(r, v) == [r EXCEPT !.div_frac = v]
write_top(r, v) == [r EXCEPT !.top = v]
write_ctr(r, v) == [r EXCEPT !.ctr = v]
write_enable(r, v) == [r EXCEPT !.enable = v]

\* the register file of a slice out of reset
ResetRegs ==
    [ph_correct |-> FALSE, div_int |-> 1, div_frac |-> 0,
     inv_a |-> FALSE, inv_b |-> FALSE, top |-> 65535, ctr |-> 0,
     cc_a |-> 0, cc_b |-> 0, enable |-> FALSE]

\* the duty register of a channel selector
cc(r, c) == IF c = "A" THEN r.cc_a ELSE r.cc_b
inv(r, c) == IF c = "A" THEN r.inv_a ELSE r.inv_b
Other(c) == IF c = "A" THEN "B" ELSE "A"

(***************************************************************************)
(* DynSlice::default_config                                                *)
(***************************************************************************)
\* mutant: the write of channel B's duty register is left out
default_config_no_cc_b(r) ==
    LET r1 == write_ph_correct(r, FALSE)
        r2 == write_div_int(r1, DIV_INT_DEFAULT)
        r3 == write_div_frac(r2, 0)
        r4 == write_inv_a(r3, FALSE)
        r5 == write_inv_b(r4, FALSE)
        r6 == write_top(r5, TOP_DEFAULT)
        r7 == write_ctr(r6, 0)
    IN  write_cc_a(r7, 0)

default_config(r) ==
    LET r1 == write_ph_correct(r, FALSE)
        r2 == write_div_int(r1, DIV_INT_DEFAULT)
        r3 == write_div_frac(r2, 0)
        r4 == write_inv_a(r3, FALSE)
        r5 == write_inv_b(r4, FALSE)
        r6 == write_top(r5, TOP_DEFAULT)
        r7 == write_ctr(r6, 0)
        r8 == write_cc_a(r7, 0)
    IN  write_cc_b(r8, 0)

\* DynSlice::set_ph_correct / clr_ph_correct
set_ph_correct(r) == write_ph_correct(r, TRUE)
clr_ph_correct(r) == write_ph_correct(r, FALSE)

\* DynSlice::enable / DynSlice::disable (the slice's run bit)
slice_enable(r) == write_enable(r, TRUE)
slice_disable(r) == write_enable(r, FALSE)

\* DynSlice::set_div_int / set_div_frac / set_counter / set_top
set_div_int(r, value) == write_div_int(r, value)
set_div_frac(r, value) == write_div_frac(r, value)
set_counter(r, value) == write_ctr(r, value)
set_top(r, value) == write_top(r, value)

\* DynSlice::get_counter / get_top
get_counter(r) == read_ctr(r)
get_top(r) == read_top(r)

(***************************************************************************)
(* DynChannel                                                              *)
(***************************************************************************)
\* mutant: the handle starts Enabled
DynChannel_new_enabled(channel_id) ==
    [channel_id |-> channel_id, duty_cycle |-> 0, enabled |-> TRUE]

\* DynChannel::new: duty_cycle: 0u16, enabled: false
DynChannel_new(channel_id) ==
    [channel_id |-> channel_id, duty_cycle |-> 0, enabled |-> FALSE]

\* a method's outcome: the handle and the register file after the call
Out(self, r) == [self |-> self, regs |-> r]

\* mutant: both selectors write channel A's inversion bit
set_inverted_wrong_sel(self, r) == Out(self, write_inv_a(r, TRUE))

\* DynChannel::set_inverted
set_inverted(self, r) ==
    CASE self.channel_id = "A" -> Out(self, write_inv_a(r, TRUE))
      [] self.channel_id = "B" -> Out(self, write_inv_b(r, TRUE))

\* DynChannel::clr_inverted
clr_inverted(self, r) ==
    CASE self.channel_id = "A" -> Out(self, write_inv_a(r, FALSE))
      [] self.channel_id = "B" -> Out(self, write_inv_b(r, FALSE))

\* mutant: the hardware register is read into the shadow unconditionally
disable_reread(self, r) ==
    CASE self.channel_id = "A" ->
            Out([self EXCEPT !.duty_cycle = read_cc_a(r), !.enabled = FALSE],
                write_cc_a(r, 0))
      [] self.channel_id = "B" ->
            Out([self EXCEPT !.duty_cycle = read_cc_b(r), !.enabled = FALSE],
                write_cc_b(r, 0))

\* mutant: the shadow is never loaded from the hardware register
disable_nosave(self, r) ==
    CASE self.channel_id = "A" ->
            Out([self EXCEPT !.enabled = FALSE], write_cc_a(r, 0))
      [] self.channel_id = "B" ->
            Out([self EXCEPT !.enabled = FALSE], write_cc_b(r, 0))

\* mutant: an already Disabled channel is left alone, hardware included
disable_guarded(self, r) ==
    IF self.enabled
    THEN CASE self.channel_id = "A" ->
                Out([self EXCEPT !.duty_cycle = read_cc_a(r), !.enabled = FALSE],
                    write_cc_a(r, 0))
           [] self.channel_id = "B" ->
                Out([self EXCEPT !.duty_cycle = read_cc_b(r), !.enabled = FALSE],
                    write_cc_b(r, 0))
    ELSE Out(self, r)

\* mutant: the hardware duty register is not zeroed
disable_nozero(self, r) ==
    CASE self.channel_id = "A" ->
            Out([self EXCEPT !.duty_cycle = IF self.enabled THEN read_cc_a(r) ELSE @,
                             !.enabled = FALSE], r)
      [] self.channel_id = "B" ->
            Out([self EXCEPT !.duty_cycle = IF self.enabled THEN read_cc_b(r) ELSE @,
                             !.enabled = FALSE], r)

\* PwmPin::disable
disable(self, r) ==
    CASE self.channel_id = "A" ->
            LET s1 == IF self.enabled
                      THEN [self EXCEPT !.duty_cycle = read_cc_a(r)]
                      ELSE self
            IN  Out([s1 EXCEPT !.enabled = FALSE], write_cc_a(r, 0))
      [] self.channel_id = "B" ->
            LET s1 == IF self.enabled
                      THEN [self EXCEPT !.duty_cycle = read_cc_b(r)]
                      ELSE self
            IN  Out([s1 EXCEPT !.enabled = FALSE], write_cc_b(r, 0))

\* mutant: the shadow is written back on every call, enabled or not
enable_always(self, r) ==
    CASE self.channel_id = "A" ->
            Out([self EXCEPT !.enabled = TRUE], write_cc_a(r, self.duty_cycle))
      [] self.channel_id = "B" ->
            Out([self EXCEPT !.enabled = TRUE], write_cc_b(r, self.duty_cycle))

\* PwmPin::enable
enable(self, r) ==
    IF ~self.enabled
    THEN LET s1 == [self EXCEPT !.enabled = TRUE]
         IN  CASE self.channel_id = "A" -> Out(s1, write_cc_a(r, s1.duty_cycle))
               [] self.channel_id = "B" -> Out(s1, write_cc_b(r, s1.duty_cycle))
    ELSE Out(self, r)

\* mutant: the shadow is returned whatever the state
get_duty_shadow(self, r) == self.duty_cycle

\* mutant: the hardware register is returned whatever the state
get_duty_live(self, r) ==
    CASE self.channel_id = "A" -> read_cc_a(r)
      [] self.channel_id = "B" -> read_cc_b(r)

\* PwmPin::get_duty
get_duty(self, r) ==
    IF self.enabled
    THEN CASE self.channel_id = "A" -> read_cc_a(r)
           [] self.channel_id = "B" -> read_cc_b(r)
    ELSE self.duty_cycle

(***************************************************************************)
(* Pin wiring.  gpio::DynPin is the pin collaborator: try_into_mode either *)
(* routes the pin to the asked function (Ok) or rejects the switch (Err).  *)
(***************************************************************************)
DynPin == [pwm : BOOLEAN]

try_into_mode(pin, mode) == IF mode = "DYN_FUNCTION_PWM" /\ pin.pwm THEN "Ok" ELSE "Err"

\* Result::unwrap: the unit value of Ok, a panic on Err
unwrap(res) == IF res = "Ok" THEN "unit" ELSE "panic"

\* mutant: the collaborator's error is handed back to the caller
input_from_result(self, pin) ==
    IF try_into_mode(pin, "DYN_FUNCTION_PWM") = "Ok" THEN "unit" ELSE "err"

\* DynChannel::input_from: what the call ends in
input_from(self, pin) == unwrap(try_into_mode(pin, "DYN_FUNCTION_PWM"))

\* DynChannel::output_to: what the call ends in
output_to(self, pin) == unwrap(try_into_mode(pin, "DYN_FUNCTION_PWM"))

\* PwmPin::get_max_duty
get_max_duty(self, r) == read_top(r)

\* mutant: the hardware register is written whatever the state
set_duty_live(self, r, duty) ==
    LET s1 == [self EXCEPT !.duty_cycle = duty]
    IN  CASE self.channel_id = "A" -> Out(s1, write_cc_a(r, duty))
          [] self.channel_id = "B" -> Out(s1, write_cc_b(r, duty))

\* mutant: both selectors write channel A's register
set_duty_wrong_sel(self, r, duty) ==
    LET s1 == [self EXCEPT !.duty_cycle = duty]
    IN  IF self.enabled THEN Out(s1, write_cc_a(r, duty)) ELSE Out(s1, r)

\* PwmPin::set_duty
set_duty(self, r, duty) ==
    LET s1 == [self EXCEPT !.duty_cycle = duty]
    IN  IF s1.enabled
        THEN CASE s1.channel_id = "A" -> Out(s1, write_cc_a(r, duty))
               [] s1.channel_id = "B" -> Out(s1, write_cc_b(r, duty))
        ELSE Out(s1, r)

(***************************************************************************)
(* 32-bit words of the shared interrupt registers                          *)
(***************************************************************************)
Bit(w, i) == (w \div (2 ^ i)) % 2

RECURSIVE BitOr(_, _)
BitOr(a, b) ==
    IF a = 0 THEN b
    ELSE IF b = 0 THEN a
    ELSE (IF a % 2 = 1 \/ b % 2 = 1 THEN 1 ELSE 0) + 2 * BitOr(a \div 2, b \div 2)

RECURSIVE BitAnd(_, _)
BitAnd(a, b) ==
    IF a = 0 \/ b = 0 THEN 0
    ELSE (IF a % 2 = 1 /\ b % 2 = 1 THEN 1 ELSE 0) + 2 * BitAnd(a \div 2, b \div 2)

RECURSIVE BitAndNot(_, _)
BitAndNot(a, b) ==
    IF a = 0 THEN 0
    ELSE IF b = 0 THEN a
    ELSE (IF a % 2 = 1 /\ b % 2 = 0 THEN 1 ELSE 0) + 2 * BitAndNot(a \div 2, b \div 2)

RECURSIVE BitXor(_, _)
BitXor(a, b) ==
    IF a = 0 THEN b
    ELSE IF b = 0 THEN a
    ELSE (IF a % 2 = b % 2 THEN 0 ELSE 1) + 2 * BitXor(a \div 2, b \div 2)

RECURSIVE PopCount(_)
PopCount(w) == IF w = 0 THEN 0 ELSE (w % 2) + PopCount(w \div 2)

\* x << n, by n doublings (n stays below the word width for every slice id)
RECURSIVE shl(_, _)
shl(x, n) == IF n = 0 THEN x ELSE shl(2 * x, n - 1)

\* atomic_register_access: one bus write to the register's set / clear alias
write_bitmask_set(reg, bits) == BitOr(reg, bits)
write_bitmask_clear(reg, bits) == BitAndNot(reg, bits)

\* INTR is write-one-to-clear
intr_write(reg, bits) == BitAndNot(reg, bits)

\* INTS: the raw status masked by INTE, then forced by INTF
ints(e, r, f) == BitOr(BitAnd(r, e), f)

(***************************************************************************)
(* DynSlice: the interrupt operations                                      *)
(***************************************************************************)
\* DynSlice::new
DynSlice_new(n) == [regs |-> [id |-> DynSliceId(n)]]

\* DynSlice::id
id(self) == self.regs.id

\* mutant: the operands of the shift are swapped
bitmask_swapped(self) == shl(id(self).num, 1)

\* DynSlice::bitmask
bitmask(self) == shl(1, id(self).num)

\* mutant: the mask is stored to INTE itself, not to its set alias
enable_interrupt_store(self, reg) == bitmask(self)

\* DynSlice::enable_interrupt (reg is INTE)
enable_interrupt(self, reg) == write_bitmask_set(reg, bitmask(self))

\* DynSlice::disable_interrupt (reg is INTE)
disable_interrupt(self, reg) == write_bitmask_clear(reg, bitmask(self))

\* DynSlice::has_overflown (status is INTS)
has_overflown(self, status) ==
    LET mask == bitmask(self) IN BitAnd(status, mask) = mask

\* mutant: the write toggles the bit (the XOR alias)
clear_interrupt_toggle(self, reg) == BitXor(reg, bitmask(self))

\* mutant: read-modify-write of INTR: every pending bit is written back
clear_interrupt_rmw(self, reg) == intr_write(reg, BitOr(reg, bitmask(self)))

\* DynSlice::clear_interrupt (reg is INTR)
clear_interrupt(self, reg) == intr_write(reg, bitmask(self))

\* mutant: the mask is stored to INTF itself, not to its set alias
force_interrupt_store(self, reg) == bitmask(self)

\* DynSlice::force_interrupt (reg is INTF)
force_interrupt(self, reg) == write_bitmask_set(reg, bitmask(self))

\* DynSlice::clear_force_interrupt (reg is INTF)
clear_force_interrupt(self, reg) == write_bitmask_clear(reg, bitmask(self))

(***************************************************************************)
(* The interrupt call log                                                  *)
(***************************************************************************)
IrqCall(op, n, ret) ==
    [op |-> op, id |-> n, mask |-> bitmask(DynSlice_new(n)), ret |-> ret,
     inte |-> inte, intr |-> intr, intf |-> intf]

IrqLog(op, n, ret) ==
    /\ irq_last' = IrqCall(op, n, ret)
    /\ irq_repeat' = (irq_last.op = op /\ irq_last.id = n)
    /\ UNCHANGED chanVars

(***************************************************************************)
(* The call log                                                            *)
(***************************************************************************)
\* no argument / no result
NoArg == 0 - 1

\* the call `op` on channel `c`, made in the current state
Call(op, c, arg, ret) ==
    [op |-> op, ch |-> c, arg |-> arg, ret |-> ret, chan |-> chan, regs |-> regs]

\* what is kept of the call before the last one: a disable() with the
\* enabled flag and the duty register it found, or nothing
NoCall == [op |-> "other", ch |-> "none", enabled |-> FALSE, cc |-> 0]

Older(l) ==
    IF l.op = "disable"
    THEN [op |-> l.op, ch |-> l.ch, enabled |-> l.chan[l.ch].enabled,
          cc |-> cc(l.regs, l.ch)]
    ELSE NoCall

\* a call that returns: it is made while the program runs, and logged
Log(op, c, arg, ret) ==
    /\ ~panicked
    /\ panicked' = panicked
    /\ last' = Call(op, c, arg, ret)
    /\ prev' = Older(last)
    /\ last_set' = CASE op = "set_duty" -> [last_set EXCEPT ![c] = arg]
                      [] op = "new" -> [last_set EXCEPT ![c] = 0]
                      [] OTHER -> last_set
    /\ UNCHANGED irqVars

\* a method that changes the handle and the registers
Apply(c, out) ==
    /\ chan' = [chan EXCEPT ![c] = out.self]
    /\ regs' = out.regs

(***************************************************************************)
(* Channel state machine: one action per call                              *)
(***************************************************************************)
Init ==
    /\ regs = ResetRegs
    /\ chan = [c \in DynChannelId |-> DynChannel_new(c)]
    /\ last = [op |-> "new", ch |-> "A", arg |-> NoArg, ret |-> NoArg,
               chan |-> chan, regs |-> regs]
    /\ prev = NoCall
    /\ last_set = [c \in DynChannelId |-> 0]
    /\ panicked = FALSE
    /\ inte = 0
    /\ intr = 0
    /\ intf = 0
    /\ inte_want = [i \in SliceIds |-> FALSE]
    /\ irq_last = [op |-> "none", id |-> 0, mask |-> 0, ret |-> FALSE,
                   inte |-> 0, intr |-> 0, intf |-> 0]
    /\ irq_repeat = FALSE

\* a fresh handle for the channel (unsafe new / From<Channel>), the
\* previous handle having been dropped; the hardware is not touched
New(c) ==
    /\ chan' = [chan EXCEPT ![c] = DynChannel_new(c)]
    /\ regs' = regs
    /\ Log("new", c, NoArg, NoArg)

Disable(c) ==
    /\ Apply(c, disable(chan[c], regs))
    /\ Log("disable", c, NoArg, NoArg)

Enable(c) ==
    /\ Apply(c, enable(chan[c], regs))
    /\ Log("enable", c, NoArg, NoArg)

GetDuty(c) ==
    /\ UNCHANGED <<chan, regs>>
    /\ Log("get_duty", c, NoArg, get_duty(chan[c], regs))

GetMaxDuty(c) ==
    /\ UNCHANGED <<chan, regs>>
    /\ Log("get_max_duty", c, NoArg, get_max_duty(chan[c], regs))

SetDuty(c, v) ==
    /\ Apply(c, set_duty(chan[c], regs, v))
    /\ Log("set_duty", c, v, NoArg)

SetInverted(c) ==
    /\ Apply(c, set_inverted(chan[c], regs))
    /\ Log("set_inverted", c, NoArg, NoArg)

ClrInverted(c) ==
    /\ Apply(c, clr_inverted(chan[c], regs))
    /\ Log("clr_inverted", c, NoArg, NoArg)

\* a call that may panic: the outcome is logged, a panic ends the program
PinCall(op, c, pin, outcome) ==
    /\ ~panicked
    /\ panicked' = (outcome = "panic")
    /\ UNCHANGED <<chan, regs>>
    /\ last' = Call(op, c, pin, outcome)
    /\ prev' = Older(last)
    /\ UNCHANGED <<last_set, irqVars>>

InputFrom(c, pin) ==
    /\ PinCall("input_from", c, pin, input_from(chan[c], pin))

OutputTo(c, pin) ==
    /\ PinCall("output_to", c, pin, output_to(chan[c], pin))

\* the DynSlice handle of the same physical slice
DefaultConfig ==
    /\ regs' = default_config(regs)
    /\ chan' = chan
    /\ Log("default_config", "none", NoArg, NoArg)

NextChannel ==
    \/ \E c \in DynChannelId : New(c)
    \/ \E c \in DynChannelId : Disable(c)
    \/ \E c \in DynChannelId : Enable(c)
    \/ \E c \in DynChannelId : GetDuty(c)
    \/ \E c \in DynChannelId : GetMaxDuty(c)
    \/ \E c \in DynChannelId, v \in Duty : SetDuty(c, v)
    \/ \E c \in DynChannelId : SetInverted(c)
    \/ \E c \in DynChannelId : ClrInverted(c)
    \/ \E c \in DynChannelId, pin \in DynPin : InputFrom(c, pin)
    \/ \E c \in DynChannelId, pin \in DynPin : OutputTo(c, pin)
    \/ DefaultConfig

SpecChannel == Init /\ [][NextChannel]_vars

\* the channel handles as the only writers of their duty registers: the
\* PwmPin calls alone, on handles that may be created anew at any time
NextOwned ==
    \/ \E c \in DynChannelId : New(c)
    \/ \E c \in DynChannelId : Disable(c)
    \/ \E c \in DynChannelId : Enable(c)
    \/ \E c \in DynChannelId : GetDuty(c)
    \/ \E c \in DynChannelId, v \in Duty : SetDuty(c, v)

SpecOwned == Init /\ [][NextOwned]_vars

(***************************************************************************)
(* Slice configuration state machine: the DynSlice handle of the slice,    *)
(* created over whatever its channels' duty registers hold                 *)
(***************************************************************************)
RegValues == 0 .. MaxReg
TopValues == RegValues \cup {TOP_DEFAULT}

InitSlice ==
    /\ regs \in {[ResetRegs EXCEPT !.cc_a = a, !.cc_b = b] : a, b \in Duty}
    /\ chan = [c \in DynChannelId |-> DynChannel_new(c)]
    /\ last = [op |-> "new", ch |-> "none", arg |-> NoArg, ret |-> NoArg,
               chan |-> chan, regs |-> regs]
    /\ prev = NoCall
    /\ last_set = [c \in DynChannelId |-> 0]
    /\ panicked = FALSE
    /\ inte = 0
    /\ intr = 0
    /\ intf = 0
    /\ inte_want = [i \in SliceIds |-> FALSE]
    /\ irq_last = [op |-> "none", id |-> 0, mask |-> 0, ret |-> FALSE,
                   inte |-> 0, intr |-> 0, intf |-> 0]
    /\ irq_repeat = FALSE

\* one action per DynSlice method; the channel handles are not involved
SetPhCorrect ==
    /\ regs' = set_ph_correct(regs)
    /\ chan' = chan
    /\ Log("set_ph_correct", "none", NoArg, NoArg)

ClrPhCorrect ==
    /\ regs' = clr_ph_correct(regs)
    /\ chan' = chan
    /\ Log("clr_ph_correct", "none", NoArg, NoArg)

SliceEnable ==
    /\ regs' = slice_enable(regs)
    /\ chan' = chan
    /\ Log("slice_enable", "none", NoArg, NoArg)

SliceDisable ==
    /\ regs' = slice_disable(regs)
    /\ chan' = chan
    /\ Log("slice_disable", "none", NoArg, NoArg)

SetDivInt(v) ==
    /\ regs' = set_div_int(regs, v)
    /\ chan' = chan
    /\ Log("set_div_int", "none", v, NoArg)

SetDivFrac(v) ==
    /\ regs' = set_div_frac(regs, v)
    /\ chan' = chan
    /\ Log("set_div_frac", "none", v, NoArg)

SetCounter(v) ==
    /\ regs' = set_counter(regs, v)
    /\ chan' = chan
    /\ Log("set_counter", "none", v, NoArg)

SetTop(v) ==
    /\ regs' = set_top(regs, v)
    /\ chan' = chan
    /\ Log("set_top", "none", v, NoArg)

NextSlice ==
    \/ DefaultConfig
    \/ SetPhCorrect
    \/ ClrPhCorrect
    \/ SliceEnable
    \/ SliceDisable
    \/ \E v \in RegValues : SetDivInt(v)
    \/ \E v \in RegValues : SetDivFrac(v)
    \/ \E v \in RegValues : SetCounter(v)
    \/ \E v \in TopValues : SetTop(v)

SpecSlice == InitSlice /\ [][NextSlice]_vars

(***************************************************************************)
(* Interrupt state machine: one action per call, any slice at any step     *)
(***************************************************************************)
Bitmask(n) ==
    /\ UNCHANGED <<inte, intr, intf, inte_want>>
    /\ IrqLog("bitmask", n, FALSE)

EnableInterrupt(n) ==
    /\ inte' = enable_interrupt(DynSlice_new(n), inte)
    /\ inte_want' = [inte_want EXCEPT ![n] = TRUE]
    /\ UNCHANGED <<intr, intf>>
    /\ IrqLog("enable_interrupt", n, FALSE)

DisableInterrupt(n) ==
    /\ inte' = disable_interrupt(DynSlice_new(n), inte)
    /\ inte_want' = [inte_want EXCEPT ![n] = FALSE]
    /\ UNCHANGED <<intr, intf>>
    /\ IrqLog("disable_interrupt", n, FALSE)

HasOverflown(n) ==
    /\ UNCHANGED <<inte, intr, intf, inte_want>>
    /\ IrqLog("has_overflown", n, has_overflown(DynSlice_new(n), ints(inte, intr, intf)))

ClearInterrupt(n) ==
    /\ intr' = clear_interrupt(DynSlice_new(n), intr)
    /\ UNCHANGED <<inte, intf, inte_want>>
    /\ IrqLog("clear_interrupt", n, FALSE)

ForceInterrupt(n) ==
    /\ intf' = force_interrupt(DynSlice_new(n), intf)
    /\ UNCHANGED <<inte, intr, inte_want>>
    /\ IrqLog("force_interrupt", n, FALSE)

ClearForceInterrupt(n) ==
    /\ intf' = clear_force_interrupt(DynSlice_new(n), intf)
    /\ UNCHANGED <<inte, intr, inte_want>>
    /\ IrqLog("clear_force_interrupt", n, FALSE)

\* hardware: the counter of slice n wraps and latches its raw status bit
CounterWrap(n) ==
    /\ intr' = BitOr(intr, 2 ^ n)
    /\ UNCHANGED <<inte, intf, inte_want>>
    /\ IrqLog("wrap", n, FALSE)

NextInterrupt ==
    \/ \E n \in 0 .. MaxId : Bitmask(n)
    \/ \E n \in SliceIds : EnableInterrupt(n)
    \/ \E n \in SliceIds : DisableInterrupt(n)
    \/ \E n \in SliceIds : HasOverflown(n)
    \/ \E n \in SliceIds : ClearInterrupt(n)
    \/ \E n \in SliceIds : ForceInterrupt(n)
    \/ \E n \in SliceIds : ClearForceInterrupt(n)
    \/ \E n \in SliceIds : CounterWrap(n)

SpecInterrupt == Init /\ [][NextInterrupt]_vars

(***************************************************************************)
(* Properties of the channel state machine (checked under SpecChannel)     *)
(***************************************************************************)
\* the handle the last call was made on, before and after the call
PreSelf == last.chan[last.ch]
PostSelf == chan[last.ch]
OnChannel(op) == last.op = op /\ last.ch \in DynChannelId
\* the register file `r` with the duty register of selector c set to v
WithCc(r, c, v) == IF c = "A" THEN [r EXCEPT !.cc_a = v] ELSE [r EXCEPT !.cc_b = v]

\* C1: on a channel that is Enabled with hardware duty d, disable() leaves
\* shadow = d and hardware duty = 0, and an enable() that directly follows
\* leaves the hardware duty register = d and get_duty() = d.
C1_DisableEnableRestoresDuty ==
    /\ (OnChannel("disable") /\ PreSelf.enabled)
         => /\ PostSelf.duty_cycle = cc(last.regs, last.ch)
            /\ cc(regs, last.ch) = 0
    /\ (OnChannel("enable") /\ prev.op = "disable" /\ prev.ch = last.ch
            /\ prev.enabled)
         => /\ cc(regs, last.ch) = prev.cc
            /\ get_duty(PostSelf, regs) = prev.cc

C1_Witness ==
    /\ OnChannel("enable") /\ last.ch = "A"
    /\ prev.op = "disable" /\ prev.ch = "A" /\ prev.enabled /\ prev.cc = 20000
    /\ last.regs.cc_a = 0 /\ PreSelf.duty_cycle = 20000
    /\ regs.cc_a = 20000

\* C2: the second of two disable() calls in a row on a channel leaves the
\* shadow duty as the first call left it.
C2_DisableTwiceKeepsShadow ==
    (OnChannel("disable") /\ prev.op = "disable" /\ prev.ch = last.ch)
        => PostSelf.duty_cycle = PreSelf.duty_cycle

C2_Witness ==
    /\ OnChannel("disable") /\ prev.op = "disable" /\ prev.ch = last.ch
    /\ prev.enabled /\ prev.cc = 20000
    /\ cc(last.regs, last.ch) = 0
    /\ PostSelf.duty_cycle = 20000

\* C3 (as claimed): disable() on a channel that is already Disabled changes
\* neither the enabled flag, nor the shadow, nor the hardware duty register,
\* whatever that register holds.
C3_DisableWhenDisabledIsNoOp ==
    (OnChannel("disable") /\ ~PreSelf.enabled)
        => /\ PostSelf = PreSelf
           /\ cc(regs, last.ch) = cc(last.regs, last.ch)

\* C3 (amended): disable() on a channel that is already Disabled leaves the
\* enabled flag and the shadow unchanged and writes 0 to the channel's own
\* hardware duty register, changing no other register.
C3_DisableWhenDisabledZeroesHardware ==
    (OnChannel("disable") /\ ~PreSelf.enabled)
        => /\ chan = last.chan
           /\ regs = WithCc(last.regs, last.ch, 0)

C3_Witness ==
    /\ OnChannel("disable") /\ ~PreSelf.enabled
    /\ cc(last.regs, last.ch) = 20000
    /\ PreSelf.duty_cycle = 1
    /\ cc(regs, last.ch) = 0

\* C4: set_duty(v) on a Disabled channel writes no hardware register (a duty
\* register that is 0 stays 0) and changes only the shadow, to v; get_duty()
\* then returns v; the shadow reaches the hardware duty register when
\* enable() is called on the Disabled channel.
C4_SetDutyWhileDisabled ==
    /\ (OnChannel("set_duty") /\ ~PreSelf.enabled)
         => /\ regs = last.regs
            /\ (cc(last.regs, last.ch) = 0 => cc(regs, last.ch) = 0)
            /\ chan = [last.chan EXCEPT ![last.ch].duty_cycle = last.arg]
            /\ get_duty(PostSelf, regs) = last.arg
    /\ (OnChannel("enable") /\ ~PreSelf.enabled)
         => cc(regs, last.ch) = PreSelf.duty_cycle

C4_Witness ==
    /\ OnChannel("set_duty") /\ ~PreSelf.enabled
    /\ last.arg = 20000 /\ PreSelf.duty_cycle = 1
    /\ cc(last.regs, last.ch) = 0 /\ cc(regs, last.ch) = 0
    /\ get_duty(PostSelf, regs) = 20000

\* C5: set_duty(v) on an Enabled channel writes v to the hardware duty
\* register of the channel's own selector and to no other register, and to
\* the shadow; get_duty() then returns v.
C5_SetDutyWhileEnabled ==
    (OnChannel("set_duty") /\ PreSelf.enabled)
        => /\ regs = WithCc(last.regs, last.ch, last.arg)
           /\ cc(regs, Other(last.ch)) = cc(last.regs, Other(last.ch))
           /\ chan = [last.chan EXCEPT ![last.ch].duty_cycle = last.arg]
           /\ get_duty(PostSelf, regs) = last.arg

C5_Witness ==
    /\ OnChannel("set_duty") /\ PreSelf.enabled /\ last.ch = "B"
    /\ last.arg = 20000 /\ last.regs.cc_b = 1
    /\ regs.cc_b = 20000 /\ regs.cc_a = 1

\* C6: enable() on a Disabled channel makes it Enabled and writes the shadow
\* to the hardware duty register of the channel's selector; enable() on an
\* Enabled channel changes nothing.
C6_Enable ==
    OnChannel("enable")
        => IF PreSelf.enabled
           THEN chan = last.chan /\ regs = last.regs
           ELSE /\ chan = [last.chan EXCEPT ![last.ch].enabled = TRUE]
                /\ regs = WithCc(last.regs, last.ch, PreSelf.duty_cycle)

C6_Witness ==
    /\ OnChannel("enable") /\ ~PreSelf.enabled
    /\ PreSelf.duty_cycle = 20000 /\ cc(last.regs, last.ch) = 1
    /\ PostSelf.enabled /\ cc(regs, last.ch) = 20000

\* C7: get_duty() returns the hardware duty register of the channel's
\* selector when the channel is Enabled and the shadow when it is Disabled,
\* and changes neither a handle nor a register.
C7_GetDuty ==
    OnChannel("get_duty")
        => /\ last.ret = IF PreSelf.enabled THEN cc(last.regs, last.ch)
                                             ELSE PreSelf.duty_cycle
           /\ chan = last.chan
           /\ regs = last.regs

C7_Witness ==
    /\ OnChannel("get_duty") /\ PreSelf.enabled
    /\ PreSelf.duty_cycle = 20000 /\ cc(last.regs, last.ch) = 0
    /\ last.ret = 0

\* C13: a newly created channel handle (new / conversion from a static
\* handle) is Disabled with shadow duty 0, whatever the hardware holds, and no
\* register is written: get_duty() returns 0 before any other call.
C13_NewChannel ==
    OnChannel("new")
        => /\ PostSelf = [channel_id |-> last.ch, duty_cycle |-> 0, enabled |-> FALSE]
           /\ get_duty(PostSelf, regs) = 0
           /\ regs = last.regs

C13_Witness ==
    /\ OnChannel("new")
    /\ PreSelf.enabled /\ PreSelf.duty_cycle = 20000
    /\ cc(regs, last.ch) = 20000
    /\ get_duty(PostSelf, regs) = 0

\* the register file `r` with the inversion bit of selector c set to v
WithInv(r, c, v) == IF c = "A" THEN [r EXCEPT !.inv_a = v] ELSE [r EXCEPT !.inv_b = v]

\* C14: set_inverted() / clr_inverted() write the inversion bit of the
\* channel's own selector and nothing else: the other selector's inversion
\* bit, the duty registers, the shadow and the enabled flag are unchanged.
C14_InvertOwnSelectorOnly ==
    /\ OnChannel("set_inverted")
         => regs = WithInv(last.regs, last.ch, TRUE) /\ chan = last.chan
    /\ OnChannel("clr_inverted")
         => regs = WithInv(last.regs, last.ch, FALSE) /\ chan = last.chan
    /\ (OnChannel("set_inverted") \/ OnChannel("clr_inverted"))
         => /\ inv(regs, Other(last.ch)) = inv(last.regs, Other(last.ch))
            /\ regs.cc_a = last.regs.cc_a
            /\ regs.cc_b = last.regs.cc_b

C14_Witness ==
    /\ OnChannel("set_inverted") /\ last.ch = "B"
    /\ ~last.regs.inv_a /\ ~last.regs.inv_b
    /\ regs.inv_b /\ ~regs.inv_a
    /\ regs.cc_a = 20000 /\ chan["B"].duty_cycle = 1

\* C16 (as claimed): in every reachable state a Disabled channel's hardware
\* duty register is 0.
C16_DisabledMeansZeroDuty ==
    \A c \in DynChannelId : ~chan[c].enabled => cc(regs, c) = 0

\* C16 (amended): disable() leaves the channel Disabled with its hardware duty
\* register 0, and while a channel stays Disabled a duty register that is 0
\* stays 0 through every call; creating a handle writes no register, so a
\* handle created over a non-zero register is Disabled above that value.
C16_DisabledStaysZero ==
    /\ OnChannel("disable") => ~PostSelf.enabled /\ cc(regs, last.ch) = 0
    /\ \A c \in DynChannelId :
          (~last.chan[c].enabled /\ cc(last.regs, c) = 0 /\ ~chan[c].enabled)
              => cc(regs, c) = 0
    /\ OnChannel("new") => regs = last.regs /\ ~PostSelf.enabled

C16_Witness ==
    /\ OnChannel("disable") /\ PreSelf.enabled
    /\ cc(last.regs, last.ch) = 20000
    /\ ~PostSelf.enabled /\ cc(regs, last.ch) = 0
    /\ chan[Other(last.ch)].enabled

\* C15: input_from(pin) / output_to(pin) return the unit value when the pin
\* collaborator accepts the switch to the PWM function and panic when it
\* rejects it; an error value is never returned, and the program runs on
\* only after a call that did not panic.
C15_PinRejectionPanics ==
    /\ (OnChannel("input_from") \/ OnChannel("output_to"))
         => /\ last.ret = IF last.arg.pwm THEN "unit" ELSE "panic"
            /\ last.ret # "err"
            /\ panicked <=> ~last.arg.pwm
            /\ chan = last.chan
            /\ regs = last.regs
    /\ panicked => (OnChannel("input_from") \/ OnChannel("output_to"))

C15_Witness ==
    /\ OnChannel("output_to")
    /\ ~last.arg.pwm
    /\ last.ret = "panic"
    /\ panicked

(***************************************************************************)
(* Properties of the channel handles as only writers (checked under        *)
(* SpecOwned)                                                              *)
(***************************************************************************)
\* C17: with the handle as the only writer of its duty register, after any
\* sequence of enable / disable / set_duty / get_duty calls get_duty()
\* returns the argument of the most recent set_duty, 0 if there was none;
\* enable() and disable() do not change what get_duty() returns.
C17_GetDutyIsLastSetDuty ==
    /\ \A c \in DynChannelId : get_duty(chan[c], regs) = last_set[c]
    /\ OnChannel("get_duty") => last.ret = last_set[last.ch]
    /\ (OnChannel("enable") \/ OnChannel("disable"))
         => get_duty(PostSelf, regs) = get_duty(PreSelf, last.regs)

C17_Witness ==
    /\ OnChannel("get_duty") /\ ~PreSelf.enabled
    /\ prev.op = "disable" /\ prev.ch = last.ch /\ prev.enabled
    /\ last_set[last.ch] = 20000 /\ cc(regs, last.ch) = 0
    /\ last.ret = 20000

(***************************************************************************)
(* Properties of the slice configuration (checked under SpecSlice)         *)
(***************************************************************************)
\* C11: whatever the registers held before, after default_config() the slice
\* has phase-correct off, divisor 1 + 0/16, both channel duty registers 0,
\* top 0xFFFF and counter 0.
C11_DefaultConfig ==
    last.op = "default_config"
        => /\ regs.ph_correct = FALSE
           /\ regs.div_int = 1
           /\ regs.div_frac = 0
           /\ regs.cc_a = 0
           /\ regs.cc_b = 0
           /\ regs.top = 65535
           /\ regs.ctr = 0

C11_Witness ==
    /\ last.op = "default_config"
    /\ last.regs.ph_correct /\ last.regs.div_int = 0 /\ last.regs.div_frac = 1
    /\ last.regs.cc_a = 20000 /\ last.regs.cc_b = 1
    /\ last.regs.top = 1 /\ last.regs.ctr = 1
    /\ regs.cc_a = 0 /\ regs.cc_b = 0 /\ regs.top = 65535

(***************************************************************************)
(* Properties of the interrupt state machine (checked under SpecInterrupt) *)
(***************************************************************************)
Bits == 0 .. MaxId
OnSlice(op) == irq_last.op = op

\* C8: in every interleaving of enable_interrupt/disable_interrupt calls of
\* the slices, a call changes only its own slice's bit of INTE (and no other
\* word), and bit i of INTE is what the last call for slice i asked for.
C8_InterruptEnableBits ==
    /\ \A i \in SliceIds : (Bit(inte, i) = 1) <=> inte_want[i]
    /\ (OnSlice("enable_interrupt") \/ OnSlice("disable_interrupt"))
         => /\ \A j \in Bits \ {irq_last.id} : Bit(inte, j) = Bit(irq_last.inte, j)
            /\ Bit(inte, irq_last.id) = IF OnSlice("enable_interrupt") THEN 1 ELSE 0
            /\ intr = irq_last.intr
            /\ intf = irq_last.intf

C8_Witness ==
    /\ OnSlice("disable_interrupt") /\ irq_last.id = 1
    /\ irq_last.inte = 7
    /\ inte = 5

\* C9: bitmask() of the slice with id i is 1 << i: exactly bit i is set, and
\* the slice of no other id has the same bitmask (id 3 gives 0b1000).
C9_Bitmask ==
    ~OnSlice("none")
        => /\ irq_last.mask = 2 ^ irq_last.id
           /\ PopCount(irq_last.mask) = 1
           /\ \A j \in Bits \ {irq_last.id} :
                  bitmask(DynSlice_new(j)) # irq_last.mask

C9_Witness ==
    /\ OnSlice("bitmask") /\ irq_last.id = 3
    /\ irq_last.mask = 8

\* C10: clear_interrupt() is idempotent: the second of two calls in a row on
\* a slice leaves INTR and the status INTS as the first left them, and
\* clearing a bit that is already clear changes nothing.
C10_ClearInterruptIdempotent ==
    (OnSlice("clear_interrupt")
        /\ (irq_repeat \/ Bit(irq_last.intr, irq_last.id) = 0))
        => /\ intr = irq_last.intr
           /\ ints(inte, intr, intf) = ints(irq_last.inte, irq_last.intr, irq_last.intf)
           /\ inte = irq_last.inte
           /\ intf = irq_last.intf

C10_Witness ==
    /\ OnSlice("clear_interrupt") /\ irq_repeat
    /\ irq_last.id = 1
    /\ irq_last.intr = 5 /\ intr = 5

\* C12: a force_interrupt() on slice i sets bit i of INTF; while that bit is
\* set has_overflown() of slice i reports the interrupt, whatever INTE and
\* INTR hold; no call other than clear_force_interrupt() of slice i, and no
\* hardware event, clears the bit (clear_interrupt() included), and
\* clear_force_interrupt() of slice i does clear it.
C12_ForceStaysUntilCleared ==
    /\ OnSlice("force_interrupt") => Bit(intf, irq_last.id) = 1
    /\ OnSlice("clear_force_interrupt") => Bit(intf, irq_last.id) = 0
    /\ \A i \in SliceIds :
          /\ (Bit(irq_last.intf, i) = 1
                /\ ~(OnSlice("clear_force_interrupt") /\ irq_last.id = i))
               => Bit(intf, i) = 1
          /\ Bit(intf, i) = 1
               => has_overflown(DynSlice_new(i), ints(inte, intr, intf))

C12_Witness ==
    /\ OnSlice("clear_interrupt") /\ irq_last.id = 1
    /\ Bit(irq_last.intf, 1) = 1 /\ Bit(irq_last.intr, 1) = 1
    /\ Bit(inte, 1) = 0 /\ Bit(intr, 1) = 0
    /\ Bit(intf, 1) = 1
    /\ has_overflown(DynSlice_new(1), ints(inte, intr, intf))

\* C18: clear_interrupt() on slice i clears bit i of the raw status INTR and
\* leaves the pending bit of every other slice as it was, in every
\* interleaving with the other slices' calls and with counter wraps.
C18_ClearInterruptOwnBitOnly ==
    OnSlice("clear_interrupt")
        => /\ Bit(intr, irq_last.id) = 0
           /\ \A j \in Bits \ {irq_last.id} : Bit(intr, j) = Bit(irq_last.intr, j)
           /\ \A j \in Bits \ {irq_last.id} :
                 Bit(ints(inte, intr, intf), j)
                     = Bit(ints(irq_last.inte, irq_last.intr, irq_last.intf), j)

C18_Witness ==
    /\ OnSlice("clear_interrupt") /\ irq_last.id = 1
    /\ irq_last.intr = 7
    /\ intr = 5

====
